---- MODULE Spec2Model ----
(***************************************************************************)
(* A model of mdx_include (src/mdx_include/mdx_include.py): the include    *)
(* preprocessor of Python-Markdown.  A document is a sequence of lines, a  *)
(* line a sequence of tokens: a space, a letter, or one whole include      *)
(* directive (the text one match of the compiled regular expression        *)
(* covers).  IncludePreprocessor.run is modelled with its call stack made  *)
(* explicit: one frame per activation of mdx_include_get_processed_lines.  *)
(***************************************************************************)
EXTENDS Integers, Sequences, FiniteSets, TLC

(***************************************************************************)
(* Bounds of the model.                                                    *)
(***************************************************************************)
\* number of options the configs dict handed to IncludeExtension overrides
MaxOverrides == 1
\* number of calls of run on one engine
MaxRuns == 2

(***************************************************************************)
(* Text.                                                                   *)
(***************************************************************************)
Sp == [k |-> "sp"]
Ch(c) == [k |-> "ch", c |-> c]

\* a path as written in a directive: a URL with a network location, an
\* absolute local path, or a relative local path (dir: its directories)
LocalPath(d, n) == [netloc |-> "", abs |-> FALSE, dir |-> d, name |-> n]
AbsPath(d, n) == [netloc |-> "", abs |-> TRUE, dir |-> d, name |-> n]
Url(n) == [netloc |-> "h", abs |-> FALSE, dir |-> <<>>, name |-> n]

\* one match of the regular expression, by its named groups
Directive(p) ==
  [k |-> "dir", escape |-> FALSE, recursive |-> "", strip_indent |-> FALSE,
   apply_indent |-> FALSE, path |-> p, lines |-> <<>>, encoding |-> ""]

\* a faulty variant of Unescaped: the backslash is kept
UnescapedKeepsBackslash(m) == m

\* total_match[1:] of an escaped match: the same text without the backslash
Unescaped(m) == [m EXCEPT !.escape = FALSE]

IsBlank(item) == \A i \in 1..Len(item) : item[i] = Sp

RECURSIVE LeadingSpaces(_)
\* len(item) - len(item.lstrip())
LeadingSpaces(item) ==
  IF item # <<>> /\ Head(item) = Sp THEN 1 + LeadingSpaces(Tail(item)) ELSE 0

\* item[n:]
DropFirst(item, n) == SubSeq(item, n + 1, Len(item))

Min(S) == CHOOSE x \in S : \A y \in S : x <= y

(***************************************************************************)
(* Configuration.                                                          *)
(***************************************************************************)
DefaultConfig ==
  [allow_local |-> TRUE, allow_remote |-> TRUE, truncate_on_failure |-> TRUE,
   recurs_local |-> "True", recurs_remote |-> "False",
   content_cache_local |-> TRUE, content_cache_remote |-> TRUE,
   content_cache_clean_local |-> FALSE, content_cache_clean_remote |-> FALSE,
   allow_circular_inclusion |-> FALSE, recursive_relative_path |-> FALSE]

Tri == {"True", "False", "None"}

AllConfigs ==
  [allow_local : BOOLEAN, allow_remote : BOOLEAN, truncate_on_failure : BOOLEAN,
   recurs_local : Tri, recurs_remote : Tri,
   content_cache_local : BOOLEAN, content_cache_remote : BOOLEAN,
   content_cache_clean_local : BOOLEAN, content_cache_clean_remote : BOOLEAN,
   allow_circular_inclusion : BOOLEAN, recursive_relative_path : BOOLEAN]

Overridden(c) == {o \in DOMAIN DefaultConfig : c[o] # DefaultConfig[o]}

\* the configurations IncludeExtension.__init__ builds from a configs dict
\* of at most MaxOverrides options
Configs == {c \in AllConfigs : Cardinality(Overridden(c)) <= MaxOverrides}

\* the option "encoding" and the option "base_path" keep their defaults
DefaultEncoding == "utf-8"
BasePath == <<>>

(***************************************************************************)
(* Paths and keys.  A key is <<directories, name>>; the parent of the      *)
(* document itself is the empty string.                                    *)
(***************************************************************************)
Root == <<<<>>, "">>

Dirname(key) == key[1]

\* os.path.normpath of a joined path: "//" of a URL collapses to "/"
Normpath(d) ==
  IF d # <<>> /\ Head(d) = "http://" THEN <<"http:">> \o Tail(d) ELSE d

IsRemote(p) == p.netloc # ""

RemoteKey(p) == << <<"http://", p.netloc>> \o p.dir, p.name >>

LocalKey(p, parent, cfg) ==
  IF p.abs THEN << <<"/">> \o p.dir, p.name >>
  ELSE IF cfg.recursive_relative_path /\ parent # Root
       THEN << Normpath(Dirname(parent) \o p.dir), p.name >>
       ELSE << Normpath(BasePath \o p.dir), p.name >>

(***************************************************************************)
(* Encodings.                                                              *)
(***************************************************************************)
FoundEncodings == {"utf_8", "utf_16"}

Underscored(e) ==
  CASE e = "utf-8" -> "utf_8" [] e = "utf-16" -> "utf_16" [] OTHER -> e

encoding_exists(e) ==
  IF e # "" THEN (e \in FoundEncodings \/ Underscored(e) \in FoundEncodings)
  ELSE FALSE

EffectiveEncoding(e) == IF encoding_exists(e) THEN e ELSE DefaultEncoding

(***************************************************************************)
(* RowSlice.slice of the rcslice package: a range spec is a sequence of    *)
(* <<a, b>> pairs (a single line number n is <<n, n>>).                    *)
(***************************************************************************)
RECURSIVE RangePart(_, _, _)
RangePart(textl, a, b) ==
  LET here == IF a >= 1 /\ a <= Len(textl) THEN <<textl[a]>> ELSE <<>>
  IN IF a = b THEN here
     ELSE here \o RangePart(textl, IF a < b THEN a + 1 ELSE a - 1, b)

RECURSIVE RowSlice(_, _)
RowSlice(textl, spec) ==
  IF spec = <<>> THEN <<>>
  ELSE RangePart(textl, Head(spec)[1], Head(spec)[2]) \o RowSlice(textl, Tail(spec))

(***************************************************************************)
(* Cyclic of the cyclic package: root maps a child to its parents.         *)
(***************************************************************************)
CyclicAdd(root, child, parent) ==
  IF child \in DOMAIN root
  THEN [root EXCEPT ![child] = Append(@, parent)]
  ELSE root @@ (child :> <<parent>>)

ParentsOf(root, S) ==
  UNION {{root[n][i] : i \in 1..Len(root[n])} : n \in S \cap DOMAIN root}

RECURSIVE Ancestors(_, _)
Ancestors(root, S) ==
  LET N == S \cup ParentsOf(root, S)
  IN IF N = S THEN S ELSE Ancestors(root, N)

IsCyclic(root, node) == node \in Ancestors(root, ParentsOf(root, {node}))

(***************************************************************************)
(* The state of one engine (one IncludePreprocessor), of its current call  *)
(* of run, and of the file system it reads.                                *)
(***************************************************************************)
VARIABLES
  config,        \* the options, fixed by __init__
  cache_local,   \* mdx_include_content_cache_local
  cache_remote,  \* mdx_include_content_cache_remote
  cyclic,        \* self.cyclic.root
  stack,         \* the activations of mdx_include_get_processed_lines
  status,        \* "idle", "running", "done", "circular_error", "value_error"
  result,        \* the lines run returned
  error,         \* what the RuntimeError names
  runs,          \* the calls of run so far
  document,      \* the lines the current call of run was given
  retrievals,    \* per key: the directives and retrievals of the current call of run
  last,          \* the last directive the current call of run dealt with
  prev,          \* how the call of run before the current one ended
  removed        \* the local files deleted since the engine was built

vars == <<config, cache_local, cache_remote, cyclic, stack, status, result,
          error, runs, document, retrievals, last, prev, removed>>

(***************************************************************************)
(* The files and resources the retrieval capabilities read, as the line    *)
(* lists "".join([read(), "\n"]).splitlines() yields: a file ending in a   *)
(* newline ends in an empty line, an empty file is one empty line.         *)
(***************************************************************************)
K(n) == <<BasePath, n>>
Inc(n) == Directive(LocalPath(<<>>, n))

LocalFiles ==
  (K("A") :> << <<Ch("a"), Inc("B")>> >>) @@
  (K("B") :> << <<Ch("b"), Inc("A")>> >>) @@
  (K("S") :> << <<Ch("s"), [Inc("S") EXCEPT !.encoding = "utf-16"]>> >>) @@
  (K("Z") :> << <<Ch("z"), [Inc("Z") EXCEPT !.recursive = "-"]>> >>) @@
  (K("P") :> << <<Ch("p"), [Inc("Q") EXCEPT !.recursive = "-"]>> >>) @@
  (K("Q") :> << <<Ch("q"), Inc("P")>> >>) @@
  (K("T") :> << <<Inc("U")>>, <<Inc("V")>> >>) @@
  (K("U") :> << <<Ch("u"), Inc("L")>> >>) @@
  (K("V") :> << <<Ch("v"), Inc("L")>> >>) @@
  (K("L") :> << <<Sp, Sp, Ch("x")>>, <<Sp, Sp, Sp, Ch("y")>>, <<Sp>>, <<>> >>) @@
  (K("E") :> << <<>> >>) @@
  (K("N") :> << <<Inc("E")>> >>) @@
  (K("Y") :> << <<Ch("g")>> >>) @@
  (<<<<"sub">>, "X">> :> << <<Ch("k"), Inc("Y")>> >>) @@
  (<<<<"sub">>, "Y">> :> << <<Ch("h")>> >>)

RemoteFiles ==
  (RemoteKey(Url("R")) :> << <<Ch("r"), Inc("Y")>>, <<Sp, Ch("w")>> >>)

\* the <<file, encoding>> pairs whose decoding fails
Undecodable == {<<K("S"), "utf-16">>}

\* the local files that may be deleted between two calls of run
Removable == {K("L")}

\* the module-level get_remote_content_list: download and decode, or fail
get_remote_content_list(url, encoding) ==
  IF url \in DOMAIN RemoteFiles /\ <<url, encoding>> \notin Undecodable
  THEN [textl |-> RemoteFiles[url], stat |-> TRUE]
  ELSE [textl |-> <<>>, stat |-> FALSE]

\* the module-level get_local_content_list: read and decode, or fail
get_local_content_list(filename, encoding) ==
  IF /\ filename \in DOMAIN LocalFiles
     /\ filename \notin removed
     /\ <<filename, encoding>> \notin Undecodable
  THEN [textl |-> LocalFiles[filename], stat |-> TRUE]
  ELSE [textl |-> <<>>, stat |-> FALSE]

(***************************************************************************)
(* The methods of IncludePreprocessor, as functions of the engine state    *)
(* they read.                                                              *)
(***************************************************************************)
\* IncludePreprocessor.get_remote_content_list: from the cache or by download
CachedRemote(cfg, cache, filename, encoding) ==
  IF cfg.content_cache_remote /\ filename \in DOMAIN cache
  THEN [textl |-> cache[filename], stat |-> TRUE, cache |-> cache, called |-> FALSE]
  ELSE LET got == get_remote_content_list(filename, encoding)
       IN [textl |-> got.textl, stat |-> got.stat, called |-> TRUE,
           cache |-> IF got.stat /\ cfg.content_cache_remote
                     THEN (filename :> got.textl) @@ cache ELSE cache]

\* a faulty variant of CachedLocal: what was read is never stored
CachedLocalNeverStores(cfg, cache, filename, encoding) ==
  IF cfg.content_cache_local /\ filename \in DOMAIN cache
  THEN [textl |-> cache[filename], stat |-> TRUE, cache |-> cache, called |-> FALSE]
  ELSE LET got == get_local_content_list(filename, encoding)
       IN [textl |-> got.textl, stat |-> got.stat, called |-> TRUE, cache |-> cache]

\* a faulty variant of CachedLocal: content_cache_local is not looked at
CachedLocalIgnoresOption(cfg, cache, filename, encoding) ==
  IF filename \in DOMAIN cache
  THEN [textl |-> cache[filename], stat |-> TRUE, cache |-> cache, called |-> FALSE]
  ELSE LET got == get_local_content_list(filename, encoding)
       IN [textl |-> got.textl, stat |-> got.stat, called |-> TRUE,
           cache |-> IF got.stat THEN (filename :> got.textl) @@ cache ELSE cache]

\* a faulty variant of CachedLocal: the file is read again on every call
CachedLocalRereads(cfg, cache, filename, encoding) ==
  LET got == get_local_content_list(filename, encoding)
  IN [textl |-> got.textl, stat |-> got.stat, called |-> TRUE,
      cache |-> IF got.stat /\ cfg.content_cache_local
                THEN (filename :> got.textl) @@ cache ELSE cache]

\* a faulty variant of CachedLocal: only the first line read is stored
CachedLocalStoresFirstLine(cfg, cache, filename, encoding) ==
  IF cfg.content_cache_local /\ filename \in DOMAIN cache
  THEN [textl |-> cache[filename], stat |-> TRUE, cache |-> cache, called |-> FALSE]
  ELSE LET got == get_local_content_list(filename, encoding)
       IN [textl |-> got.textl, stat |-> got.stat, called |-> TRUE,
           cache |-> IF got.stat /\ cfg.content_cache_local
                     THEN (filename :> SubSeq(got.textl, 1, 1)) @@ cache
                     ELSE cache]

\* IncludePreprocessor.get_local_content_list: from the cache or by reading
CachedLocal(cfg, cache, filename, encoding) ==
  IF cfg.content_cache_local /\ filename \in DOMAIN cache
  THEN [textl |-> cache[filename], stat |-> TRUE, cache |-> cache, called |-> FALSE]
  ELSE LET got == get_local_content_list(filename, encoding)
       IN [textl |-> got.textl, stat |-> got.stat, called |-> TRUE,
           cache |-> IF got.stat /\ cfg.content_cache_local
                     THEN (filename :> got.textl) @@ cache ELSE cache]

\* a faulty variant of get_recursive_content_list: the toggle always wins
ToggleAlwaysWins(recursive, recurse_state) ==
  IF recurse_state = "+" THEN TRUE
  ELSE IF recurse_state = "-" THEN FALSE
  ELSE recursive = "True"

\* a faulty variant of get_recursive_content_list: the cyclic-safe expansion
\* is called whatever the default and the toggle are
RecursionNeverOff(recursive, recurse_state) == TRUE

\* get_recursive_content_list: whether the cyclic-safe expansion is called,
\* from the kind's default (recursive) and the directive's toggle
get_recursive_content_list(recursive, recurse_state) ==
  IF recursive = "True" THEN recurse_state # "-"
  ELSE IF recursive = "None" THEN recurse_state = "+"
  ELSE FALSE

\* a faulty variant of mdx_include_get_cyclic_safe_processed_line_list: never raises
CyclicSafeNeverRaises(is_cyclic, allow_circular_inclusion) ==
  IF ~is_cyclic THEN "process" ELSE "keep"

\* mdx_include_get_cyclic_safe_processed_line_list: expand, keep, or raise
mdx_include_get_cyclic_safe_processed_line_list(is_cyclic, allow_circular_inclusion) ==
  IF ~is_cyclic THEN "process"
  ELSE IF allow_circular_inclusion THEN "keep" ELSE "raise"

\* the items of textl that item.strip() keeps
NonBlank(textl) == {i \in 1..Len(textl) : ~IsBlank(textl[i])}

\* min() of an empty sequence raises ValueError
StripRaises(textl) == NonBlank(textl) = {}

\* the strip-indent block: remove the common leading spaces
StripIndent(textl) ==
  LET num_common_spaces == Min({LeadingSpaces(textl[i]) : i \in NonBlank(textl)})
  IN [i \in 1..Len(textl) |-> DropFirst(textl[i], num_common_spaces)]

\* the splice of textl into resll, pre being line[c:s]
Splice(resll, pre, textl, apply_indent) ==
  IF textl # <<>>
  THEN IF resll # <<>>
       THEN [resll EXCEPT ![Len(resll)] = @ \o pre \o textl[1]] \o Tail(textl)
       ELSE IF apply_indent
            THEN [i \in 1..Len(textl) |-> pre \o textl[i]]
            ELSE <<pre \o textl[1]>> \o Tail(textl)
  ELSE Append(resll, pre)

\* the replacement of a failed include when truncate_on_failure is off
OnFailure(cfg, m, textl, stat) ==
  IF ~stat /\ ~cfg.truncate_on_failure THEN << <<m>> >> ELSE textl

\* the offset of the next match of the regular expression after offset c
NextMatch(line, c) ==
  LET S == {s \in (c + 1)..Len(line) : line[s].k = "dir"}
  IN IF S = {} THEN 0 ELSE Min(S)

(***************************************************************************)
(* The documents handed to run.                                            *)
(***************************************************************************)
Rec(d, t) == [d EXCEPT !.recursive = t]
Strip(d) == [d EXCEPT !.strip_indent = TRUE]
Apply(d) == [d EXCEPT !.apply_indent = TRUE]
Ln(d, spec) == [d EXCEPT !.lines = spec]
Enc(d, e) == [d EXCEPT !.encoding = e]
Esc(d) == [d EXCEPT !.escape = TRUE]

SingleDirectives ==
  {Rec(Inc("U"), t) : t \in {"", "+", "-"}}
  \cup {Rec(Directive(Url("R")), t) : t \in {"", "+", "-"}}
  \cup {Inc(n) : n \in {"A", "S", "Z", "T", "M", "E", "N", "L", "P"}}
  \cup {Directive(LocalPath(<<"sub">>, "X")), Directive(AbsPath(<<"sub">>, "X"))}
  \cup {Strip(Inc(n)) : n \in {"L", "E", "N", "M"}}
  \cup {Apply(Inc("L")), Ln(Inc("L"), << <<2, 1>> >>), Ln(Inc("L"), << <<9, 9>> >>),
        Ln(Inc("T"), << <<1, 1>> >>), Enc(Inc("L"), "utf-16"),
        Enc(Inc("L"), "bogus"), Enc(Inc("S"), "utf-16")}

OneDirective(d) == << <<Sp, Sp, d, Ch("e")>> >>
TwoOnLine(d1, d2) == << <<Sp, d1, Sp, d2, Ch("e")>> >>
TwoLines(d1, d2) == << <<d1>>, <<Ch("e"), d2>> >>

Docs ==
  {OneDirective(d) : d \in SingleDirectives}
  \cup {OneDirective(Esc(d)) : d \in SingleDirectives}
  \cup {TwoOnLine(Inc("L"), Inc("L")), TwoOnLine(Inc("M"), Inc("M")),
        TwoOnLine(Directive(Url("R")), Directive(Url("R"))),
        TwoOnLine(Inc("M"), Apply(Inc("L"))),
        TwoOnLine(Apply(Inc("L")), Apply(Inc("L"))),
        TwoOnLine(Ln(Inc("L"), << <<9, 9>> >>), Ln(Inc("L"), << <<9, 9>> >>)),
        TwoOnLine(Inc("U"), Inc("V"))}
  \cup {TwoLines(Inc("P"), Inc("Q")),
        TwoLines(Ln(Inc("L"), << <<1, 2>> >>), Inc("L")),
        TwoLines(Inc("L"), Ln(Inc("L"), << <<1, 2>> >>))}

(***************************************************************************)
(* Activations and bookkeeping.                                            *)
(***************************************************************************)
Frame(lines, parent) ==
  [lines |-> lines, parent |-> parent, li |-> 1, c |-> 0, resll |-> <<>>,
   new_lines |-> <<>>, pend |-> <<>>]

Top == stack[Len(stack)]
Active(f) == f.li <= Len(f.lines)
Line(f) == f.lines[f.li]
OnPath(key) == \E i \in 1..Len(stack) : stack[i].parent = key

\* one more directive dealt with for key: whether the retrieval capability
\* was invoked for it (called) and whether that retrieval succeeded (ok)
Bump(r, key, called, ok) ==
  LET old == IF key \in DOMAIN r THEN r[key] ELSE [dirs |-> 0, n |-> 0, ok |-> 0]
  IN (key :> [dirs |-> old.dirs + 1,
              n |-> old.n + (IF called THEN 1 ELSE 0),
              ok |-> old.ok + (IF called /\ ok THEN 1 ELSE 0)]) @@ r

Init ==
  /\ config \in Configs
  /\ cache_local = <<>>
  /\ cache_remote = <<>>
  /\ cyclic = <<>>
  /\ stack = <<>>
  /\ status = "idle"
  /\ result = <<>>
  /\ error = <<>>
  /\ runs = 0
  /\ document = <<>>
  /\ retrievals = <<>>
  /\ last = <<>>
  /\ prev = "none"
  /\ removed = {}

\* a faulty variant of Outcome: an escaped match is resolved, fetched and
\* recorded like any other before its literal text is put in
OutcomeEscapedStillFetches(m, parent) ==
  LET remote == IsRemote(m.path)
      allowed == IF remote THEN config.allow_remote ELSE config.allow_local
      key == IF remote THEN RemoteKey(m.path) ELSE LocalKey(m.path, parent, config)
      encoding == EffectiveEncoding(m.encoding)
      got == IF remote THEN CachedRemote(config, cache_remote, key, encoding)
             ELSE CachedLocal(config, cache_local, key, encoding)
      textl == IF m.lines # <<>> THEN RowSlice(got.textl, m.lines) ELSE got.textl
      root == CyclicAdd(cyclic, key, parent)
      recursive == get_recursive_content_list(
                     IF remote THEN config.recurs_remote ELSE config.recurs_local,
                     m.recursive)
      safe == mdx_include_get_cyclic_safe_processed_line_list(
                IsCyclic(root, key), config.allow_circular_inclusion)
      same == [key |-> Root, remote |-> remote, recursive |-> FALSE,
               called |-> FALSE, hit |-> FALSE, incache |-> FALSE,
               cache_local |-> cache_local,
               cache_remote |-> cache_remote, cyclic |-> cyclic, onpath |-> FALSE]
      fetched == [textl |-> textl, stat |-> got.stat, key |-> key, remote |-> remote,
                  recursive |-> recursive, called |-> got.called, hit |-> ~got.called,
                  incache |-> key \in DOMAIN (IF remote THEN cache_remote ELSE cache_local),
                  cache_local |-> IF remote THEN cache_local ELSE got.cache,
                  cache_remote |-> IF remote THEN got.cache ELSE cache_remote,
                  cyclic |-> root, onpath |-> OnPath(key)]
  IN IF ~allowed
     THEN [mode |-> IF m.escape THEN "escaped" ELSE "disallowed",
           textl |-> IF m.escape THEN << <<Unescaped(m)>> >> ELSE <<>>,
           stat |-> m.escape] @@ same
     ELSE IF m.escape
     THEN [mode |-> "escaped", textl |-> << <<Unescaped(m)>> >>, stat |-> TRUE]
          @@ fetched
     ELSE [mode |-> IF ~recursive THEN "raw"
                    ELSE IF safe = "process" THEN "expand"
                    ELSE IF safe = "keep" THEN "cyclic_raw" ELSE "circular"]
          @@ fetched

\* a faulty variant of Outcome: the line range is not applied before the
\* content goes to get_recursive_content_list
OutcomeRecursesUnsliced(m, parent) ==
  LET remote == IsRemote(m.path)
      allowed == IF remote THEN config.allow_remote ELSE config.allow_local
      key == IF remote THEN RemoteKey(m.path) ELSE LocalKey(m.path, parent, config)
      encoding == EffectiveEncoding(m.encoding)
      got == IF remote THEN CachedRemote(config, cache_remote, key, encoding)
             ELSE CachedLocal(config, cache_local, key, encoding)
      root == CyclicAdd(cyclic, key, parent)
      recursive == get_recursive_content_list(
                     IF remote THEN config.recurs_remote ELSE config.recurs_local,
                     m.recursive)
      safe == mdx_include_get_cyclic_safe_processed_line_list(
                IsCyclic(root, key), config.allow_circular_inclusion)
      same == [key |-> Root, remote |-> remote, recursive |-> FALSE,
               called |-> FALSE, hit |-> FALSE, incache |-> FALSE,
               cache_local |-> cache_local,
               cache_remote |-> cache_remote, cyclic |-> cyclic, onpath |-> FALSE]
  IN IF m.escape
     THEN [mode |-> "escaped", textl |-> << <<Unescaped(m)>> >>, stat |-> TRUE] @@ same
     ELSE IF ~allowed
     THEN [mode |-> "disallowed", textl |-> <<>>, stat |-> FALSE] @@ same
     ELSE [mode |-> IF ~recursive THEN "raw"
                    ELSE IF safe = "process" THEN "expand"
                    ELSE IF safe = "keep" THEN "cyclic_raw" ELSE "circular",
           textl |-> got.textl, stat |-> got.stat, key |-> key, remote |-> remote,
           recursive |-> recursive, called |-> got.called, hit |-> ~got.called,
           incache |-> key \in DOMAIN (IF remote THEN cache_remote ELSE cache_local),
           cache_local |-> IF remote THEN cache_local ELSE got.cache,
           cache_remote |-> IF remote THEN got.cache ELSE cache_remote,
           cyclic |-> root, onpath |-> OnPath(key)]

\* a faulty variant of Outcome: what a retrieval stores in the cache is the
\* content after the line range of the directive has been applied
OutcomeStoresSliced(m, parent) ==
  LET remote == IsRemote(m.path)
      allowed == IF remote THEN config.allow_remote ELSE config.allow_local
      key == IF remote THEN RemoteKey(m.path) ELSE LocalKey(m.path, parent, config)
      encoding == EffectiveEncoding(m.encoding)
      got == IF remote THEN CachedRemote(config, cache_remote, key, encoding)
             ELSE CachedLocal(config, cache_local, key, encoding)
      textl == IF m.lines # <<>> THEN RowSlice(got.textl, m.lines) ELSE got.textl
      stored == IF got.called /\ key \in DOMAIN got.cache
                THEN [got.cache EXCEPT ![key] = textl] ELSE got.cache
      root == CyclicAdd(cyclic, key, parent)
      recursive == get_recursive_content_list(
                     IF remote THEN config.recurs_remote ELSE config.recurs_local,
                     m.recursive)
      safe == mdx_include_get_cyclic_safe_processed_line_list(
                IsCyclic(root, key), config.allow_circular_inclusion)
      same == [key |-> Root, remote |-> remote, recursive |-> FALSE,
               called |-> FALSE, hit |-> FALSE, incache |-> FALSE,
               cache_local |-> cache_local,
               cache_remote |-> cache_remote, cyclic |-> cyclic, onpath |-> FALSE]
  IN IF m.escape
     THEN [mode |-> "escaped", textl |-> << <<Unescaped(m)>> >>, stat |-> TRUE] @@ same
     ELSE IF ~allowed
     THEN [mode |-> "disallowed", textl |-> <<>>, stat |-> FALSE] @@ same
     ELSE [mode |-> IF ~recursive THEN "raw"
                    ELSE IF safe = "process" THEN "expand"
                    ELSE IF safe = "keep" THEN "cyclic_raw" ELSE "circular",
           textl |-> textl, stat |-> got.stat, key |-> key, remote |-> remote,
           recursive |-> recursive, called |-> got.called, hit |-> ~got.called,
           incache |-> key \in DOMAIN (IF remote THEN cache_remote ELSE cache_local),
           cache_local |-> IF remote THEN cache_local ELSE stored,
           cache_remote |-> IF remote THEN stored ELSE cache_remote,
           cyclic |-> root, onpath |-> OnPath(key)]

\* a faulty variant of Outcome: allow_local is looked at for both kinds
OutcomeOneFlagForBoth(m, parent) ==
  LET remote == IsRemote(m.path)
      allowed == config.allow_local
      key == IF remote THEN RemoteKey(m.path) ELSE LocalKey(m.path, parent, config)
      encoding == EffectiveEncoding(m.encoding)
      got == IF remote THEN CachedRemote(config, cache_remote, key, encoding)
             ELSE CachedLocal(config, cache_local, key, encoding)
      textl == IF m.lines # <<>> THEN RowSlice(got.textl, m.lines) ELSE got.textl
      root == CyclicAdd(cyclic, key, parent)
      recursive == get_recursive_content_list(
                     IF remote THEN config.recurs_remote ELSE config.recurs_local,
                     m.recursive)
      safe == mdx_include_get_cyclic_safe_processed_line_list(
                IsCyclic(root, key), config.allow_circular_inclusion)
      same == [key |-> Root, remote |-> remote, recursive |-> FALSE,
               called |-> FALSE, hit |-> FALSE, incache |-> FALSE,
               cache_local |-> cache_local,
               cache_remote |-> cache_remote, cyclic |-> cyclic, onpath |-> FALSE]
  IN IF m.escape
     THEN [mode |-> "escaped", textl |-> << <<Unescaped(m)>> >>, stat |-> TRUE] @@ same
     ELSE IF ~allowed
     THEN [mode |-> "disallowed", textl |-> <<>>, stat |-> FALSE] @@ same
     ELSE [mode |-> IF ~recursive THEN "raw"
                    ELSE IF safe = "process" THEN "expand"
                    ELSE IF safe = "keep" THEN "cyclic_raw" ELSE "circular",
           textl |-> textl, stat |-> got.stat, key |-> key, remote |-> remote,
           recursive |-> recursive, called |-> got.called, hit |-> ~got.called,
           incache |-> key \in DOMAIN (IF remote THEN cache_remote ELSE cache_local),
           cache_local |-> IF remote THEN cache_local ELSE got.cache,
           cache_remote |-> IF remote THEN got.cache ELSE cache_remote,
           cyclic |-> root, onpath |-> OnPath(key)]

\* what the body of the loop over the matches does with match m, met while
\* expanding parent, up to the call of get_recursive_content_list
Outcome(m, parent) ==
  LET remote == IsRemote(m.path)
      allowed == IF remote THEN config.allow_remote ELSE config.allow_local
      key == IF remote THEN RemoteKey(m.path) ELSE LocalKey(m.path, parent, config)
      encoding == EffectiveEncoding(m.encoding)
      got == IF remote THEN CachedRemote(config, cache_remote, key, encoding)
             ELSE CachedLocal(config, cache_local, key, encoding)
      textl == IF m.lines # <<>> THEN RowSlice(got.textl, m.lines) ELSE got.textl
      root == CyclicAdd(cyclic, key, parent)
      recursive == get_recursive_content_list(
                     IF remote THEN config.recurs_remote ELSE config.recurs_local,
                     m.recursive)
      safe == mdx_include_get_cyclic_safe_processed_line_list(
                IsCyclic(root, key), config.allow_circular_inclusion)
      same == [key |-> Root, remote |-> remote, recursive |-> FALSE,
               called |-> FALSE, hit |-> FALSE, incache |-> FALSE,
               cache_local |-> cache_local,
               cache_remote |-> cache_remote, cyclic |-> cyclic, onpath |-> FALSE]
  IN IF m.escape
     THEN [mode |-> "escaped", textl |-> << <<Unescaped(m)>> >>, stat |-> TRUE] @@ same
     ELSE IF ~allowed
     THEN [mode |-> "disallowed", textl |-> <<>>, stat |-> FALSE] @@ same
     ELSE [mode |-> IF ~recursive THEN "raw"
                    ELSE IF safe = "process" THEN "expand"
                    ELSE IF safe = "keep" THEN "cyclic_raw" ELSE "circular",
           textl |-> textl, stat |-> got.stat, key |-> key, remote |-> remote,
           recursive |-> recursive, called |-> got.called, hit |-> ~got.called,
           incache |-> key \in DOMAIN (IF remote THEN cache_remote ELSE cache_local),
           cache_local |-> IF remote THEN cache_local ELSE got.cache,
           cache_remote |-> IF remote THEN got.cache ELSE cache_remote,
           cyclic |-> root, onpath |-> OnPath(key)]

\* the rest of the loop body for the match at offset s of the line of frame
\* f: failure replacement, strip-indent, splice, and the new offset
Complete(f, s, m, textl, stat) ==
  LET t1 == OnFailure(config, m, textl, stat)
      strip == t1 # <<>> /\ m.strip_indent
      raises == strip /\ StripRaises(t1)
      t2 == IF strip /\ ~raises THEN StripIndent(t1) ELSE t1
      pre == SubSeq(Line(f), f.c + 1, s - 1)
  IN [raises |-> raises, textl |-> t2, pre |-> pre,
      frame |-> [f EXCEPT !.resll = Splice(f.resll, pre, t2, m.apply_indent),
                          !.c = s, !.pend = <<>>]]

Event(f, s, m, o, mode, textl, after) ==
  [m |-> m, parent |-> f.parent, key |-> o.key, remote |-> o.remote,
   mode |-> mode, stat |-> o.stat, recursive |-> o.recursive,
   called |-> o.called, hit |-> o.hit, incache |-> o.incache,
   onpath |-> o.onpath, raw |-> o.textl,
   textl |-> textl, line |-> Line(f), s |-> s, c |-> f.c,
   before |-> f.resll, after |-> after, depth |-> Len(stack)]

(***************************************************************************)
(* The operations.                                                         *)
(***************************************************************************)
\* a faulty variant of StartRun: the Cyclic of the call before is kept
StartRunKeepsTracker(doc) ==
  /\ status # "running"
  /\ runs < MaxRuns
  /\ runs' = runs + 1
  /\ document' = doc
  /\ stack' = <<Frame(doc, Root)>>
  /\ status' = "running"
  /\ result' = <<>>
  /\ error' = <<>>
  /\ retrievals' = <<>>
  /\ last' = <<>>
  /\ prev' = status
  /\ UNCHANGED <<config, cache_local, cache_remote, cyclic, removed>>

\* run(lines): a fresh Cyclic, then mdx_include_get_processed_lines(lines, "")
StartRun(doc) ==
  /\ status # "running"
  /\ runs < MaxRuns
  /\ runs' = runs + 1
  /\ document' = doc
  /\ cyclic' = <<>>
  /\ stack' = <<Frame(doc, Root)>>
  /\ status' = "running"
  /\ result' = <<>>
  /\ error' = <<>>
  /\ retrievals' = <<>>
  /\ last' = <<>>
  /\ prev' = status
  /\ UNCHANGED <<config, cache_local, cache_remote, removed>>

\* the engine state a match leaves behind, whatever becomes of its content
Effects(o) ==
  /\ cache_local' = o.cache_local
  /\ cache_remote' = o.cache_remote
  /\ cyclic' = o.cyclic
  /\ retrievals' = IF o.mode \in {"escaped", "disallowed"} THEN retrievals
                   ELSE Bump(retrievals, o.key, o.called, o.stat)

\* one match whose content is inserted without a recursive call
Include ==
  /\ status = "running"
  /\ Active(Top)
  /\ NextMatch(Line(Top), Top.c) # 0
  /\ LET f == Top
         s == NextMatch(Line(f), f.c)
         m == Line(f)[s]
         o == Outcome(m, f.parent)
         d == Complete(f, s, m, o.textl, o.stat)
     IN /\ o.mode \in {"escaped", "disallowed", "raw", "cyclic_raw"}
        /\ ~d.raises
        /\ Effects(o)
        /\ stack' = [stack EXCEPT ![Len(stack)] = d.frame]
        /\ last' = <<Event(f, s, m, o, o.mode, d.textl, d.frame.resll)>>
  /\ UNCHANGED <<config, status, result, error, runs, document, prev, removed>>

\* one match whose content is expanded: the recursive call of
\* mdx_include_get_processed_lines(textl, filename)
Recurse ==
  /\ status = "running"
  /\ Active(Top)
  /\ NextMatch(Line(Top), Top.c) # 0
  /\ LET f == Top
         s == NextMatch(Line(f), f.c)
         m == Line(f)[s]
         o == Outcome(m, f.parent)
     IN /\ o.mode = "expand"
        /\ Effects(o)
        /\ stack' = [stack EXCEPT ![Len(stack)] =
                       [f EXCEPT !.pend = <<[s |-> s, m |-> m, o |-> o]>>]]
                    \o <<Frame(o.textl, o.key)>>
        /\ last' = <<Event(f, s, m, o, "expanding", <<>>, f.resll)>>
  /\ UNCHANGED <<config, status, result, error, runs, document, prev, removed>>

\* one match found cyclic while circular inclusion is not allowed
RaiseCircular ==
  /\ status = "running"
  /\ Active(Top)
  /\ NextMatch(Line(Top), Top.c) # 0
  /\ LET f == Top
         s == NextMatch(Line(f), f.c)
         m == Line(f)[s]
         o == Outcome(m, f.parent)
     IN /\ o.mode = "circular"
        /\ Effects(o)
        /\ error' = <<[parent |-> f.parent, filename |-> o.key,
                       parents |-> o.cyclic[o.key]]>>
        /\ last' = <<Event(f, s, m, o, "circular", <<>>, f.resll)>>
  /\ stack' = <<>>
  /\ status' = "circular_error"
  /\ UNCHANGED <<config, result, runs, document, prev, removed>>

\* strip-indent of content without a non-blank line, content not expanded
IncludeValueError ==
  /\ status = "running"
  /\ Active(Top)
  /\ NextMatch(Line(Top), Top.c) # 0
  /\ LET f == Top
         s == NextMatch(Line(f), f.c)
         m == Line(f)[s]
         o == Outcome(m, f.parent)
         d == Complete(f, s, m, o.textl, o.stat)
     IN /\ o.mode \in {"escaped", "disallowed", "raw", "cyclic_raw"}
        /\ d.raises
        /\ Effects(o)
        /\ last' = <<Event(f, s, m, o, o.mode, d.textl, f.resll)>>
  /\ stack' = <<>>
  /\ status' = "value_error"
  /\ UNCHANGED <<config, result, error, runs, document, prev, removed>>

\* the end of a line: the text after its last match
EndLine ==
  /\ status = "running"
  /\ Active(Top)
  /\ NextMatch(Line(Top), Top.c) = 0
  /\ LET f == Top
         rest == SubSeq(Line(f), f.c + 1, Len(Line(f)))
         resll == IF f.resll # <<>>
                  THEN [f.resll EXCEPT ![Len(f.resll)] = @ \o rest]
                  ELSE <<rest>>
     IN stack' = [stack EXCEPT ![Len(stack)] =
                    [f EXCEPT !.new_lines = @ \o resll, !.li = @ + 1,
                              !.c = 0, !.resll = <<>>]]
  /\ UNCHANGED <<config, cache_local, cache_remote, cyclic, status, result,
                 error, runs, document, retrievals, last,
                 prev, removed>>

\* the return of a recursive call: its lines are the content of the match
Return ==
  /\ status = "running"
  /\ Len(stack) > 1
  /\ ~Active(Top)
  /\ LET f == stack[Len(stack) - 1]
         p == f.pend[1]
         d == Complete(f, p.s, p.m, Top.new_lines, p.o.stat)
     IN /\ ~d.raises
        /\ stack' = Append(SubSeq(stack, 1, Len(stack) - 2), d.frame)
        /\ last' = <<[Event(f, p.s, p.m, p.o, "expanded", d.textl, d.frame.resll)
                       EXCEPT !.depth = Len(stack) - 1]>>
  /\ UNCHANGED <<config, cache_local, cache_remote, cyclic, status, result,
                 error, runs, document, retrievals,
                 prev, removed>>

\* strip-indent of expanded content without a non-blank line
ReturnValueError ==
  /\ status = "running"
  /\ Len(stack) > 1
  /\ ~Active(Top)
  /\ LET f == stack[Len(stack) - 1]
         p == f.pend[1]
         d == Complete(f, p.s, p.m, Top.new_lines, p.o.stat)
     IN /\ d.raises
        /\ last' = <<[Event(f, p.s, p.m, p.o, "expanded", d.textl, f.resll)
                       EXCEPT !.depth = Len(stack) - 1]>>
  /\ stack' = <<>>
  /\ status' = "value_error"
  /\ UNCHANGED <<config, cache_local, cache_remote, cyclic, result, error,
                 runs, document, retrievals,
                 prev, removed>>

\* the end of run: the cache-clean options, then the lines are returned
Finish ==
  /\ status = "running"
  /\ Len(stack) = 1
  /\ ~Active(Top)
  /\ result' = Top.new_lines
  /\ cache_local' = IF config.content_cache_clean_local THEN <<>> ELSE cache_local
  /\ cache_remote' = IF config.content_cache_clean_remote THEN <<>> ELSE cache_remote
  /\ stack' = <<>>
  /\ status' = "done"
  /\ UNCHANGED <<config, cyclic, error, runs, document, retrievals, last, prev, removed>>

\* a local file is deleted between two calls of run
Unlink(key) ==
  /\ status \notin {"idle", "running"}
  /\ runs < MaxRuns
  /\ key \notin removed
  /\ removed' = removed \cup {key}
  /\ UNCHANGED <<config, cache_local, cache_remote, cyclic, stack, status,
                 result, error, runs, document, retrievals, last, prev>>

Step ==
  \/ Include
  \/ Recurse
  \/ RaiseCircular
  \/ IncludeValueError
  \/ EndLine
  \/ Return
  \/ ReturnValueError
  \/ Finish

Next ==
  \/ \E doc \in Docs : StartRun(doc)
  \/ \E key \in Removable : Unlink(key)
  \/ Step

Spec == Init /\ [][Next]_vars

(***************************************************************************)
(* What the properties speak of.                                           *)
(***************************************************************************)
HasLast == last # <<>>
Ev == last[1]

Failed == {"circular_error", "value_error"}

\* the directive was neither escaped nor of a disallowed kind
Fetched(ev) == ev.mode \notin {"escaped", "disallowed"}

\* the cyclic-safe expansion was entered for the directive
EffectiveOn(ev) == ev.mode \in {"expanding", "expanded", "cyclic_raw", "circular"}

\* the directive has been dealt with: its content is spliced or the run failed
Settled(ev) == ev.mode # "expanding"

KindDefault(ev) == IF ev.remote THEN config.recurs_remote ELSE config.recurs_local
KindCached(remote) ==
  IF remote THEN config.content_cache_remote ELSE config.content_cache_local
IsRemoteKey(key) == key[1] # <<>> /\ Head(key[1]) = "http://"

\* line[c:s], and the whole text before the match on its line
Pre(ev) == SubSeq(ev.line, ev.c + 1, ev.s - 1)
Preceding(ev) == SubSeq(ev.line, 1, ev.s - 1)

\* resll after a one-line replacement of the match by the text t
ReplacedBy(ev, t) ==
  IF ev.before = <<>> THEN <<Pre(ev) \o t>>
  ELSE [ev.before EXCEPT ![Len(ev.before)] = @ \o Pre(ev) \o t]

(***************************************************************************)
(* C1                                                                      *)
(***************************************************************************)
\* C1 as claimed: for a directive that is not escaped and whose kind is
\* allowed, a "+" toggle turns recursion on and a "-" toggle turns it off
\* whatever the default of the kind is; without a toggle the default decides.
C1_ToggleWins ==
  (HasLast /\ Fetched(Ev)) =>
    /\ Ev.m.recursive = "+" => EffectiveOn(Ev)
    /\ Ev.m.recursive = "-" => ~EffectiveOn(Ev)
    /\ Ev.m.recursive = "" => (EffectiveOn(Ev) <=> KindDefault(Ev) = "True")

\* C1 as amended: a "-" toggle always turns recursion off; a "+" toggle turns
\* it on when the default of the kind is True or None and has no effect when
\* the default is False; without a toggle recursion is on exactly when the
\* default is True.
C1_EffectiveRecursion ==
  (HasLast /\ Fetched(Ev)) =>
    /\ Ev.m.recursive = "-" => ~EffectiveOn(Ev)
    /\ Ev.m.recursive = "+" =>
         (EffectiveOn(Ev) <=> KindDefault(Ev) \in {"True", "None"})
    /\ Ev.m.recursive = "" => (EffectiveOn(Ev) <=> KindDefault(Ev) = "True")

C1_Witness ==
  /\ HasLast
  /\ Ev.m.recursive = "+"
  /\ Ev.remote
  /\ config.recurs_remote = "None"
  /\ Ev.mode = "expanded"

(***************************************************************************)
(* C2                                                                      *)
(***************************************************************************)
\* C2: when circular inclusion is not allowed, a directive with effective
\* recursion on whose key is among its own recorded ancestors (in particular
\* a key whose expansion is in progress) fails the run: the error names the
\* including parent, the key and the recorded parents of the key, and run
\* returns no lines.
C2_CircularError ==
  /\ (HasLast /\ Ev.mode # "expanded" /\ EffectiveOn(Ev)
        /\ ~config.allow_circular_inclusion
        /\ (Ev.onpath \/ IsCyclic(cyclic, Ev.key)))
       => status = "circular_error"
  /\ status = "circular_error" =>
       /\ error = <<[parent |-> Ev.parent, filename |-> Ev.key,
                     parents |-> cyclic[Ev.key]]>>
       /\ Ev.parent \in {cyclic[Ev.key][i] : i \in 1..Len(cyclic[Ev.key])}
       /\ result = <<>>
       /\ stack = <<>>

C2_Witness ==
  /\ status = "circular_error"
  /\ document = OneDirective(Inc("A"))
  /\ error = <<[parent |-> K("B"), filename |-> K("A"),
                parents |-> <<Root, K("B")>>]>>

(***************************************************************************)
(* C3                                                                      *)
(***************************************************************************)
\* C3: with allow_circular_inclusion on, no call of run fails, and a
\* directive found cyclic gets the fetched and sliced content of its key,
\* unexpanded.
C3_CircularAllowedNoError ==
  config.allow_circular_inclusion =>
    /\ status \notin Failed
    /\ (HasLast /\ Ev.mode = "cyclic_raw" /\ Ev.stat /\ ~Ev.m.strip_indent)
         => Ev.textl = Ev.raw

(***************************************************************************)
(* C4                                                                      *)
(***************************************************************************)
\* the inclusion graph: the keys the directives of a text name
Content(key) ==
  IF key \in DOMAIN LocalFiles THEN LocalFiles[key]
  ELSE IF key \in DOMAIN RemoteFiles THEN RemoteFiles[key] ELSE <<>>

Includes(lines, parent) ==
  {IF IsRemote(lines[i][j].path) THEN RemoteKey(lines[i][j].path)
   ELSE LocalKey(lines[i][j].path, parent, config) :
     <<i, j>> \in {x \in (1..Len(lines)) \X (1..4) :
                    /\ x[2] <= Len(lines[x[1]])
                    /\ lines[x[1]][x[2]].k = "dir"
                    /\ ~lines[x[1]][x[2]].escape}}

RECURSIVE Reachable(_)
Reachable(S) ==
  LET N == S \cup UNION {Includes(Content(key), key) : key \in S}
  IN IF N = S THEN S ELSE Reachable(N)

Acyclic(doc) ==
  \A key \in Reachable(Includes(doc, Root)) :
    key \notin Reachable(Includes(Content(key), key))

\* C4: a document whose inclusion graph is acyclic never fails the run,
\* whatever allow_circular_inclusion is.
C4_AcyclicNeverFails == Acyclic(document) => status \notin Failed

\* the part of C4 that the code keeps: no circular-inclusion error
AcyclicNeverCircular == Acyclic(document) => status # "circular_error"

\* no key is expanded inside its own expansion, so the depth of the
\* recursion is bounded by the number of keys
NoReentry ==
  \A i, j \in 1..Len(stack) : i # j => stack[i].parent # stack[j].parent

\* the part of C3 that the code keeps: no circular-inclusion error
CircularAllowedNeverCircular ==
  config.allow_circular_inclusion => status # "circular_error"

(***************************************************************************)
(* C5                                                                      *)
(***************************************************************************)
\* C5: an escaped directive is replaced by its own text without the escape
\* marker, whatever its path, toggles, line range and encoding and whatever
\* the options are, and the run goes on.
C5_EscapedLiteral ==
  (HasLast /\ Ev.m.escape) =>
    /\ Ev.mode = "escaped"
    /\ status \notin Failed
    /\ Ev.textl = << <<[Ev.m EXCEPT !.escape = FALSE]>> >>
    /\ Ev.after = ReplacedBy(Ev, <<[Ev.m EXCEPT !.escape = FALSE]>>)

C5_Witness ==
  /\ HasLast
  /\ Ev.m.escape
  /\ Ev.m.strip_indent
  /\ Ev.m.path.name = "E"
  /\ ~config.truncate_on_failure

(***************************************************************************)
(* C6                                                                      *)
(***************************************************************************)
\* C6 as claimed: with the cache of a kind enabled, a call of run invokes
\* the retrieval at most once per key of that kind.
C6_AtMostOnce ==
  \A key \in DOMAIN retrievals :
    KindCached(IsRemoteKey(key)) => retrievals[key].n <= 1

\* C6 as amended: with the cache of a kind enabled, at most one retrieval
\* per key succeeds in a call of run, and it is the last one for that key:
\* a retrieval is invoked again only after retrievals that all failed.
C6_AtMostOnceSuccessful ==
  \A key \in DOMAIN retrievals :
    KindCached(IsRemoteKey(key)) =>
      /\ retrievals[key].ok <= 1
      /\ (HasLast /\ Ev.key = key /\ Ev.called /\ Ev.mode # "expanded")
           => retrievals[key].ok = IF Ev.stat THEN 1 ELSE 0

C6_Witness ==
  /\ HasLast
  /\ Ev.hit
  /\ Ev.key = K("L")
  /\ retrievals[K("L")] = [dirs |-> 2, n |-> 1, ok |-> 1]

(***************************************************************************)
(* C7                                                                      *)
(***************************************************************************)
\* C7: with the cache of a kind disabled, every directive of that kind that
\* is neither escaped nor disallowed invokes the retrieval, the cache of the
\* kind stays empty, and no content is taken from it.
C7_NoCache ==
  /\ ~config.content_cache_local => cache_local = <<>>
  /\ ~config.content_cache_remote => cache_remote = <<>>
  /\ \A key \in DOMAIN retrievals :
       ~KindCached(IsRemoteKey(key)) => retrievals[key].n = retrievals[key].dirs
  /\ (HasLast /\ Fetched(Ev) /\ ~KindCached(Ev.remote)) => (Ev.called /\ ~Ev.hit)

C7_Witness ==
  /\ ~config.content_cache_local
  /\ K("L") \in DOMAIN retrievals
  /\ retrievals[K("L")] = [dirs |-> 2, n |-> 2, ok |-> 2]

(***************************************************************************)
(* C8                                                                      *)
(***************************************************************************)
\* what C8 says the match of a failed directive is replaced by
FailureText(ev) == IF config.truncate_on_failure THEN <<>> ELSE <<ev.m>>

\* C8: a directive whose retrieval failed, or whose kind is disallowed,
\* never ends the run: its match is replaced by nothing or, with
\* truncate_on_failure off, by the matched text, and the line goes on.
C8_FailureNeverAborts ==
  (HasLast /\ Settled(Ev) /\ ~Ev.stat) =>
    /\ status \notin Failed
    /\ Ev.after = ReplacedBy(Ev, FailureText(Ev))

(***************************************************************************)
(* C9                                                                      *)
(***************************************************************************)
\* the output lines the content of the directive went to
InsertedLine(ev, i) == ev.after[Len(ev.after) - Len(ev.textl) + i]

\* C9: every content line after the first that a directive with the apply-
\* indent marker inserts starts with the text before the match on its line,
\* wherever the match is on the line; without the marker these lines are
\* inserted as they are.
C9_ApplyIndentEveryLine ==
  (HasLast /\ Ev.mode \in {"raw", "cyclic_raw", "expanded"} /\ status # "value_error") =>
    \A i \in 2..Len(Ev.textl) :
      IF Ev.m.apply_indent
      THEN SubSeq(InsertedLine(Ev, i), 1, Len(Preceding(Ev))) = Preceding(Ev)
      ELSE InsertedLine(Ev, i) = Ev.textl[i]

(***************************************************************************)
(* C10                                                                     *)
(***************************************************************************)
\* C10: the strip-indent block never raises.
C10_StripIndentNeverRaises == status # "value_error"

(***************************************************************************)
(* C11                                                                     *)
(***************************************************************************)
\* the keys of a kind the current call of run has retrieved successfully
Populated(remote) ==
  {key \in DOMAIN retrievals :
     IsRemoteKey(key) = remote /\ KindCached(remote) /\ retrievals[key].ok > 0}

\* C11: after a call of run has ended, by returning its lines or with a
\* circular-inclusion error, the cache of a kind is empty when the clean
\* option of the kind is on, and still holds what the run stored when the
\* option is off.
C11_CleanAfterEveryRun ==
  status \in {"done", "circular_error"} =>
    /\ IF config.content_cache_clean_local THEN cache_local = <<>>
       ELSE Populated(FALSE) \subseteq DOMAIN cache_local
    /\ IF config.content_cache_clean_remote THEN cache_remote = <<>>
       ELSE Populated(TRUE) \subseteq DOMAIN cache_remote

\* the part of C11 that the code keeps: the same after a call of run that
\* returned its lines
CleanAfterReturn ==
  status = "done" =>
    /\ IF config.content_cache_clean_local THEN cache_local = <<>>
       ELSE Populated(FALSE) \subseteq DOMAIN cache_local
    /\ IF config.content_cache_clean_remote THEN cache_remote = <<>>
       ELSE Populated(TRUE) \subseteq DOMAIN cache_remote

\* and a failed call of run keeps what it stored, whatever the options are
FailedRunKeepsCache ==
  status \in Failed =>
    /\ Populated(FALSE) \subseteq DOMAIN cache_local
    /\ Populated(TRUE) \subseteq DOMAIN cache_remote

(***************************************************************************)
(* C12                                                                     *)
(***************************************************************************)
\* the content a directive with the range spec gets out of textl
Sliced(textl, spec) == IF spec # <<>> THEN RowSlice(textl, spec) ELSE textl

CacheOf(remote) == IF remote THEN cache_remote ELSE cache_local

\* C12: a directive whose key is in the enabled cache of its kind, stored by
\* this call of run or by an earlier one, invokes no retrieval, succeeds and
\* gets the stored content, whatever its parent, toggle, line range and
\* encoding are and whether or not the file still exists.
C12_CachedKeyReused ==
  (HasLast /\ Fetched(Ev) /\ KindCached(Ev.remote) /\ Ev.incache) =>
    /\ ~Ev.called
    /\ Ev.hit
    /\ Ev.stat
    /\ Ev.key \in DOMAIN CacheOf(Ev.remote)
         => Ev.raw = Sliced(CacheOf(Ev.remote)[Ev.key], Ev.m.lines)

C12_Witness ==
  /\ HasLast
  /\ runs = 2
  /\ Ev.key = K("L")
  /\ K("L") \in removed
  /\ Ev.m.lines # <<>>
  /\ Ev.hit
  /\ Ev.stat
  /\ Ev.raw = <<LocalFiles[K("L")][1], LocalFiles[K("L")][2]>>

\* an entry stays as it was stored until the cache is cleaned: the only step
\* that takes an entry away is the end of a call of run with the clean
\* option of the kind on
EntriesStay ==
  /\ \/ \A key \in DOMAIN cache_local :
          key \in DOMAIN cache_local' /\ cache_local'[key] = cache_local[key]
     \/ config.content_cache_clean_local /\ status' = "done"
  /\ \/ \A key \in DOMAIN cache_remote :
          key \in DOMAIN cache_remote' /\ cache_remote'[key] = cache_remote[key]
     \/ config.content_cache_clean_remote /\ status' = "done"

CacheEntriesStay == [][EntriesStay]_vars

(***************************************************************************)
(* C13                                                                     *)
(***************************************************************************)
\* C13: the tracker holds the inclusion edges of the current call of run
\* and no other: it is empty when the call starts, however the call before
\* ended, and each key has as many recorded parents as the current call
\* has fetched directives for it.
C13_TrackerOfThisRun ==
  /\ (status = "running" /\ ~HasLast) => cyclic = <<>>
  /\ DOMAIN cyclic = DOMAIN retrievals
  /\ \A key \in DOMAIN cyclic : Len(cyclic[key]) = retrievals[key].dirs

\* the second call of run includes P after a call that failed on the cycle
\* of P and Q: the edges of the failed call would make P cyclic
C13_Witness ==
  /\ runs = 2
  /\ prev = "circular_error"
  /\ DOMAIN cache_local = {K("P"), K("Q")}
  /\ document = OneDirective(Inc("P"))
  /\ status = "done"
  /\ result = << <<Sp, Sp, Ch("p"), Ch("q"), Inc("P"), Ch("e")>> >>

(***************************************************************************)
(* C14                                                                     *)
(***************************************************************************)
EscapedStep ==
  (Include /\ last'[1].m.escape) =>
    /\ UNCHANGED <<cache_local, cache_remote, cyclic, retrievals>>
    /\ ~last'[1].called
    /\ ~last'[1].hit

\* C14: the step that deals with an escaped directive invokes no retrieval,
\* takes nothing from a cache, and leaves both caches and the tracker as
\* they were.
C14_EscapedLeavesEngine == [][EscapedStep]_vars

\* an escaped directive naming a key that is in the cache, dealt with first
\* in the second call of run
C14_Witness ==
  /\ HasLast
  /\ Ev.m.escape
  /\ Ev.m.path.name = "L"
  /\ runs = 2
  /\ K("L") \in DOMAIN cache_local
  /\ cyclic = <<>>
  /\ retrievals = <<>>

(***************************************************************************)
(* C15                                                                     *)
(***************************************************************************)
\* the directive's content has been spliced into the output of its line
Spliced(ev) == Settled(ev) /\ ev.mode # "circular" /\ status # "value_error"

\* the number of output lines of the line after a directive with content
\* of n lines, when the line had produced before so far
LinesAfter(before, n) ==
  (IF before = <<>> THEN 1 ELSE Len(before)) + (IF n > 1 THEN n - 1 ELSE 0)

\* C15: the text before a match goes to the last output line produced so
\* far, so a directive with content of n lines adds max(n - 1, 0) output
\* lines to its line, and a directive with empty content adds none.
C15_LineCount ==
  (HasLast /\ Spliced(Ev)) =>
    Len(Ev.after) = LinesAfter(Ev.before, Len(Ev.textl))

\* the part of C15 that the code keeps: the count is right for a directive
\* with content, and for one without content that is the first of its line
LineCountWithContent ==
  (HasLast /\ Spliced(Ev) /\ (Ev.textl # <<>> \/ Ev.before = <<>>)) =>
    Len(Ev.after) = LinesAfter(Ev.before, Len(Ev.textl))

\* a directive without content, after another one on its line, starts a
\* new output line with the text between the two
EmptyContentBreaksLine ==
  (HasLast /\ Spliced(Ev) /\ Ev.textl = <<>> /\ Ev.before # <<>>) =>
    Ev.after = Append(Ev.before, Pre(Ev))

(***************************************************************************)
(* C16                                                                     *)
(***************************************************************************)
\* the <<key, range spec>> pairs of the directives of a text
Targets(lines, parent) ==
  {<<IF IsRemote(lines[i][j].path) THEN RemoteKey(lines[i][j].path)
     ELSE LocalKey(lines[i][j].path, parent, config), lines[i][j].lines>> :
     <<i, j>> \in {x \in (1..Len(lines)) \X (1..4) :
                    /\ x[2] <= Len(lines[x[1]])
                    /\ lines[x[1]][x[2]].k = "dir"
                    /\ ~lines[x[1]][x[2]].escape}}

\* the targets met when only the lines a range spec retains are followed
RECURSIVE Retained(_)
Retained(S) ==
  LET N == S \cup UNION {Targets(Sliced(Content(t[1]), t[2]), t[1]) : t \in S}
  IN IF N = S THEN S ELSE Retained(N)

RetainedKeys(doc) == {t[1] : t \in Retained(Targets(doc, Root))}

\* C16: a call of run records an inclusion edge, invokes a retrieval and
\* stores a cache entry only for keys named by directives in lines that the
\* range specs on the way retain: a directive in an excluded line of a
\* target is never resolved.
C16_SliceBeforeRecursion ==
  /\ DOMAIN cyclic \subseteq RetainedKeys(document)
  /\ DOMAIN retrievals \subseteq RetainedKeys(document)
  /\ runs = 1 =>
       (DOMAIN cache_local \cup DOMAIN cache_remote) \subseteq RetainedKeys(document)

\* T holds a directive for U on line 1 and one for V on line 2
C16_Witness ==
  /\ document = OneDirective(Ln(Inc("T"), << <<1, 1>> >>))
  /\ status = "done"
  /\ K("U") \in DOMAIN cyclic
  /\ K("V") \notin DOMAIN cyclic
  /\ K("V") \in Reachable(Includes(document, Root))
  /\ Len(result) = 4
  /\ result[1] = <<Sp, Sp, Ch("u"), Sp, Sp, Ch("x")>>

(***************************************************************************)
(* C17                                                                     *)
(***************************************************************************)
\* C17 as claimed: what a retrieval stores in the cache is the fetched
\* content after the line range of the directive that caused the retrieval
\* has been applied.
C17_StoredSliced ==
  (HasLast /\ Fetched(Ev) /\ Ev.called /\ Ev.stat /\ KindCached(Ev.remote)
     /\ Ev.key \in DOMAIN CacheOf(Ev.remote))
    => CacheOf(Ev.remote)[Ev.key] = Ev.raw

\* C17 as amended: every cache entry is the complete content of its key as
\* the retrieval returned it: no line range has been applied to it and the
\* directives in it are not expanded.
C17_StoredAsFetched ==
  /\ \A key \in DOMAIN cache_local : cache_local[key] = LocalFiles[key]
  /\ \A key \in DOMAIN cache_remote : cache_remote[key] = RemoteFiles[key]

\* a directive with a line range stores L: the entry is the whole of L,
\* not the lines the directive got
C17_Witness ==
  /\ HasLast
  /\ Ev.called
  /\ Ev.stat
  /\ Ev.key = K("L")
  /\ Ev.m.lines # <<>>
  /\ Ev.raw # LocalFiles[K("L")]
  /\ cache_local[K("L")] = LocalFiles[K("L")]

(***************************************************************************)
(* C18                                                                     *)
(***************************************************************************)
\* C18: every directive whose content was obtained, from the cache or by a
\* retrieval, gets the lines its own range spec selects from the complete
\* content of its key, whatever earlier directives on the key asked for.
C18_OwnSlice ==
  (HasLast /\ Fetched(Ev) /\ Ev.stat) =>
    Ev.raw = Sliced(Content(Ev.key), Ev.m.lines)

\* L was stored by a directive with the range 1-2 and is then included
\* without a range
C18_Witness ==
  /\ HasLast
  /\ document = TwoLines(Ln(Inc("L"), << <<1, 2>> >>), Inc("L"))
  /\ Ev.m.lines = <<>>
  /\ Ev.hit
  /\ Ev.raw = LocalFiles[K("L")]
  /\ Len(Ev.raw) = 4

(***************************************************************************)
(* C19                                                                     *)
(***************************************************************************)
\* C19: a key is found cyclic only while its expansion is in progress on
\* the current expansion path; in particular the document whose line 1
\* includes P (P includes Q with the recursion-off toggle, Q includes P) and
\* whose line 2 includes Q does not end in a circular-inclusion error.
C19_CyclicOnlyOnPath ==
  /\ (HasLast /\ Ev.mode \in {"circular", "cyclic_raw"}) => Ev.onpath
  /\ document = TwoLines(Inc("P"), Inc("Q")) => status # "circular_error"

\* what holds instead: a key is found cyclic exactly when the edges recorded
\* since the start of the call of run lead from the key back to itself
CyclicByRecordedEdges ==
  (HasLast /\ Ev.mode # "expanded" /\ EffectiveOn(Ev)) =>
    (Ev.mode \in {"circular", "cyclic_raw"} <=> IsCyclic(cyclic, Ev.key))

(***************************************************************************)
(* C20                                                                     *)
(***************************************************************************)
\* the toggle and the default of the kind turn recursion off
TurnedOff(ev) ==
  \/ ev.m.recursive = "-"
  \/ KindDefault(ev) = "False"
  \/ KindDefault(ev) = "None" /\ ev.m.recursive # "+"

\* C20: a directive whose recursion is turned off is never checked for a
\* cycle: its content is inserted unexpanded and it does not end the run
\* with a circular-inclusion error, also when its key is among its own
\* ancestors; inside the expansion of Z, which includes itself with the
\* recursion-off toggle, the text of Z is inserted once, unexpanded.
C20_NoCheckWhenOff ==
  /\ (HasLast /\ Fetched(Ev) /\ TurnedOff(Ev)) =>
       /\ Ev.mode = "raw"
       /\ status # "circular_error"
  /\ (document = OneDirective(Inc("Z")) /\ config.allow_local
        /\ status \notin {"idle", "running"}) =>
       /\ status = "done"
       /\ result = IF config.recurs_local = "True"
                   THEN << <<Sp, Sp, Ch("z"), Ch("z"), Rec(Inc("Z"), "-"), Ch("e")>> >>
                   ELSE << <<Sp, Sp, Ch("z"), Rec(Inc("Z"), "-"), Ch("e")>> >>

\* the directive of Z for Z itself, met while Z is being expanded
C20_Witness ==
  /\ document = OneDirective(Inc("Z"))
  /\ ~config.allow_circular_inclusion
  /\ config.recurs_local = "True"
  /\ HasLast
  /\ Ev.m.recursive = "-"
  /\ Ev.key = K("Z")
  /\ Ev.parent = K("Z")
  /\ Ev.onpath
  /\ IsCyclic(cyclic, K("Z"))
  /\ Ev.mode = "raw"
  /\ Ev.textl = LocalFiles[K("Z")]

(***************************************************************************)
(* C21                                                                     *)
(***************************************************************************)
\* the match is not escaped and the option of its kind does not allow it
Disallowed(m) ==
  /\ ~m.escape
  /\ IF IsRemote(m.path) THEN ~config.allow_remote ELSE ~config.allow_local

\* a step that deals with a match
DirectiveStep == Include \/ Recurse \/ RaiseCircular \/ IncludeValueError

DisallowedStep ==
  DirectiveStep =>
    /\ Disallowed(last'[1].m) =>
         /\ last'[1].mode = "disallowed"
         /\ ~last'[1].stat
         /\ last'[1].raw = <<>>
         /\ ~last'[1].called
         /\ ~last'[1].hit
         /\ UNCHANGED <<cache_local, cache_remote, cyclic, retrievals, status>>
         /\ Len(stack') = Len(stack)
    /\ (~last'[1].m.escape /\ ~Disallowed(last'[1].m)) =>
         /\ last'[1].mode # "disallowed"
         /\ last'[1].called \/ last'[1].hit
         /\ last'[1].key \in DOMAIN cyclic'

\* C21: the step that deals with a directive of a kind that is not allowed
\* marks it failed with empty content, invokes no retrieval, takes nothing
\* from a cache, leaves both caches and the tracker as they were, and
\* neither recurses nor ends the run; a directive is never blocked by the
\* option of the other kind.
C21_DisallowedNoEffect == [][DisallowedStep]_vars

\* with allow_local off, the first call of run fetched and stored the
\* remote R, and the second call of run has just refused a local directive
C21_Witness ==
  /\ ~config.allow_local
  /\ runs = 2
  /\ RemoteKey(Url("R")) \in DOMAIN cache_remote
  /\ HasLast
  /\ Ev.mode = "disallowed"
  /\ ~Ev.remote
  /\ Ev.textl = <<>>
  /\ cyclic = <<>>
  /\ retrievals = <<>>
  /\ cache_local = <<>>
====
